---------------------------- MODULE Spec2Model ----------------------------
(***************************************************************************)
(* A model of tiled/adapters/hdf5.py: the HDF5Adapter tree node over an    *)
(* h5py container, the HDF5DatasetAdapter leaves it resolves, the          *)
(* direction-aware slicing helpers, and the ArrayWithAttrs array type.     *)
(*                                                                         *)
(* Python objects live in heaps (sequences; the index is the object's      *)
(* identity).  Every method is an operator that takes the heap, the        *)
(* receiver and the arguments and returns the exception raised ("None"     *)
(* when the call returns), the heap afterwards and the value returned.     *)
(***************************************************************************)
EXTENDS Integers, Sequences, FiniteSets, TLC

VARIABLES
    file,      \* the open h5py container: group id -> its links, in native order
    heap,      \* the HDF5Adapter instances constructed so far
    gen,       \* the generator made by the latest __iter__ call
    arrays,    \* the ArrayWithAttrs instances constructed so far
    dicts,     \* the __dict__ objects the ArrayWithAttrs instances refer to
    last       \* the latest call: operation, receiver, arguments, outcome

vars == <<file, heap, gen, arrays, dicts, last>>

-----------------------------------------------------------------------------
(* Bounds of the model.                                                    *)

MaxAdapters == 2      \* HDF5Adapter instances alive at once
MaxChildren == 3      \* links of the generated groups
MaxSize == 2          \* elements of the generated datasets
MaxArrays == 3        \* ArrayWithAttrs instances alive at once

-----------------------------------------------------------------------------
(* Python values.                                                          *)

None == "None"

Identities == {"alice", "bob"}

\* Access policies are opaque objects with one predicate, check_compatibility.
Policies == {"compatible_policy", "incompatible_policy"}

\* Names a caller may ask for; "missing" is linked in no generated group.
LinkNames == {"entry", "data", "x", "y"}
Keys == LinkNames \cup {"missing"}

\* A dict, as the set of its (key, value) pairs.
EmptyDict == {}

Reverse(s) == [i \in 1..Len(s) |-> s[Len(s) + 1 - i]]

Range(s) == {s[i] : i \in 1..Len(s)}

Min(a, b) == IF a < b THEN a ELSE b
Max(a, b) == IF a < b THEN b ELSE a

-----------------------------------------------------------------------------
(* The container library (h5py), as far as the adapter consults it.        *)

\* numpy dtypes of the datasets: kind "f" is fixed-width numeric, kind "S" a
\* fixed-length string, kind "O" the object dtype h5py gives variable-length
\* strings ("str", "bytes"), variable-length arrays ("int") and object
\* references ("ref").
Dtype(kind, vlen) == [kind |-> kind, vlen |-> vlen]

NormalDtypes == {Dtype("f", None), Dtype("S", None)}
VlenStringDtypes == {Dtype("O", "str"), Dtype("O", "bytes")}
OtherObjectDtypes == {Dtype("O", "int"), Dtype("O", "ref")}
ObjectDtypes == VlenStringDtypes \cup OtherObjectDtypes
Dtypes == NormalDtypes \cup ObjectDtypes

Group(id) == [kind |-> "Group", id |-> id]

Dataset(dtype, shape, data, attrs) ==
    [kind |-> "Dataset", dtype |-> dtype, shape |-> shape, data |-> data,
     attrs |-> attrs]

Link(name, obj) == [name |-> name, obj |-> obj]

RECURSIVE Product(_)
Product(shape) ==
    IF shape = <<>> THEN 1 ELSE Head(shape) * Product(Tail(shape))

\* value.size
size(value) == Product(value.shape)

\* list(node): the names of a group's links, in native order
names(node) == [i \in 1..Len(file[node]) |-> file[node][i].name]

\* len(node)
Group__len__(node) == Len(file[node])

\* node[key]: the object the link named key leads to, or KeyError
Group__getitem__(node, key) ==
    IF \E i \in 1..Len(file[node]) : file[node][i].name = key
    THEN [exc |-> None,
          value |-> file[node][CHOOSE i \in 1..Len(file[node]) :
                                   file[node][i].name = key].obj]
    ELSE [exc |-> "KeyError", value |-> None]

\* h5py.check_string_dtype: string_info for a string dtype, None otherwise
check_string_dtype(dtype) ==
    IF dtype \in VlenStringDtypes THEN [info |-> TRUE, length |-> None]
    ELSE IF dtype.kind = "S" THEN [info |-> TRUE, length |-> "itemsize"]
    ELSE [info |-> FALSE, length |-> None]


-----------------------------------------------------------------------------
(* HDF5Adapter.                                                            *)

Adapter(node, access_policy, authenticated_identity) ==
    [node |-> node, access_policy |-> access_policy,
     authenticated_identity |-> authenticated_identity]

\* access_policy.check_compatibility(self): the policy's own predicate
check_compatibility(access_policy) == access_policy = "compatible_policy"

\* The construction that skips the compatibility check.
HDF5Adapter__init__unchecked(h, node, access_policy, authenticated_identity) ==
    [exc |-> None,
     heap |-> Append(h, Adapter(node, access_policy, authenticated_identity)),
     ret |-> Len(h) + 1,
     consulted |-> 0]

\* HDF5Adapter(node, access_policy, authenticated_identity); consulted counts
\* the calls of check_compatibility ("and" evaluates its right side only when
\* a policy is given)
HDF5Adapter__init__(h, node, access_policy, authenticated_identity) ==
    IF access_policy # None /\ ~check_compatibility(access_policy)
    THEN [exc |-> "ValueError", heap |-> h, ret |-> None, consulted |-> 1]
    ELSE [exc |-> None,
          heap |-> Append(h, Adapter(node, access_policy,
                                     authenticated_identity)),
          ret |-> Len(h) + 1,
          consulted |-> IF access_policy # None THEN 1 ELSE 0]

\* h5py.File(file, "r") when file is not an h5py.File already: the root group
RootGroup == 0
Sources == {"path/to/file.h5", "h5py.File"}
h5py_File(source) == RootGroup

from_file(h, source) == HDF5Adapter__init__(h, h5py_File(source), None, None)

\* authenticated_as that writes the identity into the receiver and returns it.
authenticated_as_in_place(h, self, identity) ==
    [exc |-> None,
     heap |-> [h EXCEPT ![self].authenticated_identity = identity],
     ret |-> self,
     consulted |-> 0]

\* authenticated_as without the check for an access policy.
authenticated_as_any_policy(h, self, identity) ==
    IF h[self].authenticated_identity # None
    THEN [exc |-> "RuntimeError", heap |-> h, ret |-> None, consulted |-> 0]
    ELSE HDF5Adapter__init__unchecked(h, h[self].node, h[self].access_policy,
                                      identity)

authenticated_as(h, self, identity) ==
    IF h[self].authenticated_identity # None
    THEN [exc |-> "RuntimeError", heap |-> h, ret |-> None, consulted |-> 0]
    ELSE IF h[self].access_policy # None
    THEN [exc |-> "NotImplementedError", heap |-> h, ret |-> None,
          consulted |-> 0]
    ELSE HDF5Adapter__init__(h, h[self].node, h[self].access_policy, identity)

\* search(query)
search(h, self, query) ==
    [exc |-> "NotImplementedError", heap |-> h, ret |-> None]

\* read(fields)
read(h, self, fields) ==
    IF fields # None
    THEN [exc |-> "NotImplementedError", heap |-> h, ret |-> None]
    ELSE [exc |-> None, heap |-> h, ret |-> self]

-----------------------------------------------------------------------------
(* numpy arrays, ArrayWithAttrs, HDF5DatasetAdapter.                       *)

\* A numpy.ndarray: its dtype, its shape and its elements in row-major order
ndarray(dtype, shape, data) ==
    [scalar |-> FALSE, dtype |-> dtype, shape |-> shape, data |-> data]

\* A Python or numpy scalar of the given type, which is no array and has no
\* view method unless it is a numpy scalar
scalar(pytype, x) ==
    [scalar |-> TRUE, dtype |-> pytype, shape |-> <<>>, data |-> <<x>>]

\* The Python object an element of dtype is read as
pytype_of(dtype) ==
    IF dtype.kind = "O" THEN dtype.vlen
    ELSE IF dtype.kind = "S" THEN "bytes"
    ELSE IF dtype.kind = "i" THEN "int64"
    ELSE "float64"

\* The dtype numpy.asarray gives a scalar of the given type
dtype_of(pytype) ==
    IF pytype = "bytes" THEN Dtype("S", None)
    ELSE IF pytype = "str" THEN Dtype("U", None)
    ELSE IF pytype \in {"int", "int64"} THEN Dtype("i", None)
    ELSE IF pytype = "float64" THEN Dtype("f", None)
    ELSE Dtype("O", None)

\* numpy.array(x) and numpy.asarray(x): a scalar becomes a 0-d array
numpy_array(x) ==
    IF x.scalar THEN ndarray(dtype_of(x.dtype), <<>>, x.data)
    ELSE ndarray(x.dtype, x.shape, x.data)

\* numpy.array([])
empty_array == ndarray(Dtype("f", None), <<0>>, <<>>)

\* a[...] of an h5py dataset: all its elements, read eagerly
read_direct(value) == ndarray(value.dtype, value.shape, value.data)

\* a[()] of an ndarray: the element of a 0-d array, the array itself otherwise
index_empty_tuple(a) ==
    IF a.shape = <<>> THEN scalar(pytype_of(a.dtype), a.data[1]) ELSE a

\* The __dict__ of an object on which attrs was never set.
NoAttribute == {<<"attrs", "AttributeError">>}

\* ArrayWithAttrs.__array_finalize__(self, obj): self.__dict__ gets "attrs": {}
\* unless obj is None; dcts[self] is the "attrs" entry of self.__dict__
ArrayWithAttrs__array_finalize__(dcts, self, obj) ==
    IF obj = None THEN dcts ELSE [dcts EXCEPT ![self] = EmptyDict]

\* ArrayWithAttrs(input_array): numpy.asarray(input_array).view(cls); the view
\* is a new object with a __dict__ of its own, finalized from the base array
ArrayWithAttrs__new__(arrs, dcts, input_array) ==
    LET base == numpy_array(input_array)
        self == Len(dcts) + 1
    IN  [arrays |-> Append(arrs, [dtype |-> base.dtype, shape |-> base.shape,
                                  data |-> base.data, dict |-> self]),
         dicts |-> ArrayWithAttrs__array_finalize__(
                       Append(dcts, NoAttribute), self, "ndarray"),
         ret |-> Len(arrs) + 1]

\* arr.attrs of the ArrayWithAttrs numbered a
attrs(arrs, dcts, a) == dcts[arrs[a].dict]

\* dask.array.from_array(x): a lazily evaluated array over x's whole extent
from_array(x) == [dtype |-> x.dtype, shape |-> x.shape, data |-> x.data]

\* HDF5DatasetAdapter(dataset): ArrayAdapter over from_array(dataset) with
\* metadata dataset.attrs
HDF5DatasetAdapter__init__(dataset) ==
    [type |-> "HDF5DatasetAdapter", array |-> from_array(dataset),
     metadata |-> dataset.attrs]

\* HDF5DatasetAdapter(ArrayWithAttrs(x)) for a plain x
adapter_of_array(x) ==
    LET new == ArrayWithAttrs__new__(<<>>, <<>>, x)
        arr == new.arrays[new.ret]
    IN  HDF5DatasetAdapter__init__(
            [dtype |-> arr.dtype, shape |-> arr.shape, data |-> arr.data,
             attrs |-> attrs(new.arrays, new.dicts, new.ret)])

-----------------------------------------------------------------------------
(* ArrayWithAttrs.__array_ufunc__ and the numpy kernels it calls.          *)

Int64 == Dtype("i", None)

\* The operands of a ufunc call: an ArrayWithAttrs (by reference), a plain
\* ndarray, or a Python int, which has no view method
Operand(kind, ref, value) == [kind |-> kind, ref |-> ref, value |-> value]

\* i.view(numpy.ndarray): the bare buffer of an array operand
view(arrs, i) ==
    IF i.kind = "ArrayWithAttrs"
    THEN ndarray(arrs[i.ref].dtype, arrs[i.ref].shape, arrs[i.ref].data)
    ELSE i.value

RECURSIVE Sum(_)
Sum(data) == IF data = <<>> THEN 0 ELSE Head(data) + Sum(Tail(data))

\* numpy.negative(x)
negative(x) ==
    ndarray(x.dtype, x.shape, [i \in 1..Len(x.data) |-> 0 - x.data[i]])

\* numpy.add(x, y), one operand broadcast when it is 0-d
add(x, y) ==
    LET big == IF x.shape = <<>> THEN y ELSE x
        at(v, i) == IF v.shape = <<>> THEN v.data[1] ELSE v.data[i]
    IN  ndarray(big.dtype, big.shape,
                [i \in 1..Len(big.data) |-> at(x, i) + at(y, i)])

\* numpy.add.reduce(x) of a 1-d array: a numpy scalar
add_reduce(x) == scalar("int64", Sum(x.data))

\* numpy.add.accumulate(x) of a 1-d array
add_accumulate(x) ==
    ndarray(x.dtype, x.shape,
            [i \in 1..Len(x.data) |-> Sum(SubSeq(x.data, 1, i))])

\* numpy.add.outer(x, y) of 1-d arrays
add_outer(x, y) ==
    LET n == Len(x.data)
        m == Len(y.data)
    IN  ndarray(x.dtype, <<n, m>>,
                [k \in 1..(n * m) |->
                    x.data[((k - 1) \div m) + 1] + y.data[((k - 1) % m) + 1]])

\* numpy.add.reduceat(x, indices) of a 1-d array
add_reduceat(x, indices) ==
    LET idx == indices.data
        stop(i) == IF i < Len(idx) THEN idx[i + 1] ELSE Len(x.data)
    IN  ndarray(x.dtype, <<Len(idx)>>,
                [i \in 1..Len(idx) |->
                    IF idx[i] >= stop(i) THEN x.data[idx[i] + 1]
                    ELSE Sum(SubSeq(x.data, idx[i] + 1, stop(i)))])

\* numpy.add.at(x, indices, y): x[indices] += y in place, for one index
add_at(x, indices, y) ==
    [x.data EXCEPT ![indices.data[1] + 1] = @ + y.data[1]]

\* f[method](*views): the value returned and the buffer of the first operand
\* afterwards (only "at" writes it); ufunc is "negative" or "add"
kernel(ufunc, method, views) ==
    LET x == views[1] IN
    IF method = "__call__" /\ ufunc = "negative"
    THEN [value |-> negative(x), first |-> x.data]
    ELSE IF method = "__call__"
    THEN [value |-> add(x, views[2]), first |-> x.data]
    ELSE IF method = "reduce"
    THEN [value |-> add_reduce(x), first |-> x.data]
    ELSE IF method = "accumulate"
    THEN [value |-> add_accumulate(x), first |-> x.data]
    ELSE IF method = "outer"
    THEN [value |-> add_outer(x, views[2]), first |-> x.data]
    ELSE IF method = "reduceat"
    THEN [value |-> add_reduceat(x, views[2]), first |-> x.data]
    ELSE [value |-> scalar("NoneType", None),
          first |-> add_at(x, views[2], views[3])]

\* self.__array_ufunc__(ufunc, method, *inputs): the views are taken of every
\* input before the kernel runs, and an input without a view method raises
ArrayWithAttrs__array_ufunc__(arrs, dcts, self, ufunc, method, inputs) ==
    IF \E i \in 1..Len(inputs) : inputs[i].kind = "int"
    THEN [exc |-> "AttributeError", arrays |-> arrs, dicts |-> dcts,
          ret |-> 0]
    ELSE LET views == [i \in 1..Len(inputs) |-> view(arrs, inputs[i])]
             done == kernel(ufunc, method, views)
             written == IF inputs[1].kind = "ArrayWithAttrs"
                        THEN [arrs EXCEPT ![inputs[1].ref].data = done.first]
                        ELSE arrs
             new == ArrayWithAttrs__new__(written, dcts, done.value)
             output == new.ret
         IN  [exc |-> None,
              arrays |-> [new.arrays EXCEPT
                             ![output].dict = new.arrays[self].dict],
              dicts |-> new.dicts,
              ret |-> output]

-----------------------------------------------------------------------------
(* HDF5Adapter.__getitem__.                                                *)

\* The sub-group child that inherits its parent's policy and identity.
group_child_inheriting(h, self, value) ==
    LET new == HDF5Adapter__init__unchecked(h, value.id,
                                            h[self].access_policy,
                                            h[self].authenticated_identity)
    IN  [exc |-> new.exc, heap |-> new.heap, warned |-> FALSE,
         ret |-> new.ret]

\* return HDF5Adapter(value)
group_child(h, self, value) ==
    LET new == HDF5Adapter__init__(h, value.id, None, None)
    IN  [exc |-> new.exc, heap |-> new.heap, warned |-> FALSE,
         ret |-> new.ret]

\* The branch for value.dtype == numpy.dtype("O"): warn, then
\* check_string_dtype(value.dtype).length, which is an attribute of None when
\* the dtype is no string dtype
object_dataset(h, self, key, value) ==
    LET check_str_dtype == check_string_dtype(value.dtype)
        dataset_names ==
            index_empty_tuple(read_direct(
                Group__getitem__(h[self].node, key).value))
    IN  IF ~check_str_dtype.info
        THEN [exc |-> "AttributeError", heap |-> h, warned |-> TRUE,
              ret |-> None]
        ELSE IF check_str_dtype.length = None /\ size(value) = 1
        THEN [exc |-> None, heap |-> h, warned |-> TRUE,
              ret |-> adapter_of_array(numpy_array(dataset_names))]
        ELSE [exc |-> None, heap |-> h, warned |-> TRUE,
              ret |-> adapter_of_array(empty_array)]

\* self[key]
HDF5Adapter__getitem__(h, self, key) ==
    LET found == Group__getitem__(h[self].node, key)
        value == found.value
    IN  IF found.exc # None
        THEN [exc |-> found.exc, heap |-> h, warned |-> FALSE, ret |-> None]
        ELSE IF value.kind = "Group" THEN group_child(h, self, value)
        ELSE IF value.dtype.kind = "O" THEN object_dataset(h, self, key, value)
        ELSE [exc |-> None, heap |-> h, warned |-> FALSE,
              ret |-> HDF5DatasetAdapter__init__(value)]

-----------------------------------------------------------------------------
(* Iteration, length and the slicing helpers of IndexersMixin.             *)

\* Python sequences: a list can be subscripted, the iterator reversed()
\* returns cannot.
list(items) == [type |-> "list", items |-> items]
reversed(l) == [type |-> "list_reverseiterator", items |-> Reverse(l.items)]

\* The bound of a slice, clamped into 0..n as list slicing does
slice_bound(i, n) == IF i < 0 THEN Max(n + i, 0) ELSE Min(i, n)

\* obj[start:stop]
subscript_slice(obj, start, stop) ==
    IF obj.type # "list"
    THEN [exc |-> "TypeError", ret |-> <<>>]
    ELSE LET n == Len(obj.items)
             lo == slice_bound(start, n)
             hi == slice_bound(stop, n)
         IN  [exc |-> None, ret |-> SubSeq(obj.items, lo + 1, hi)]

\* obj[index]
subscript_index(obj, index) ==
    IF obj.type # "list"
    THEN [exc |-> "TypeError", ret |-> None]
    ELSE LET n == Len(obj.items)
         IN  IF index >= n \/ index < -n
             THEN [exc |-> "IndexError", ret |-> None]
             ELSE [exc |-> None,
                   ret |-> obj.items[(IF index < 0 THEN n + index ELSE index)
                                     + 1]]

\* __len__ that counts the datasets only.
HDF5Adapter__len__datasets(h, self) ==
    Cardinality({i \in 1..Len(file[h[self].node]) :
                    file[h[self].node][i].obj.kind = "Dataset"})

\* len(self)
HDF5Adapter__len__(h, self) == Group__len__(h[self].node)

\* iter(self): a new generator over self._node, nothing yielded yet; out keeps
\* what it has yielded
HDF5Adapter__iter__(h, self) ==
    [self |-> self, pos |-> 0, out |-> <<>>, done |-> FALSE]

NoGenerator == [self |-> 0, pos |-> 0, out |-> <<>>, done |-> FALSE]

\* next(g) on the generator of __iter__: yield from self._node
generator_next(h, g) ==
    LET node == h[g.self].node IN
    IF g.pos < Group__len__(node)
    THEN [exc |-> None, ret |-> names(node)[g.pos + 1],
          gen |-> [g EXCEPT !.pos = g.pos + 1,
                            !.out = Append(g.out, names(node)[g.pos + 1])]]
    ELSE [exc |-> "StopIteration", ret |-> None,
          gen |-> [g EXCEPT !.done = TRUE]]

\* list(self): the generator of __iter__ run to its end
list_self(h, self) == list(names(h[self].node))

\* _keys_slice(start, stop, direction)
_keys_slice(h, self, start, stop, direction) ==
    LET keys0 == list(names(h[self].node))
        keys == IF direction < 0 THEN reversed(keys0) ELSE keys0
    IN  subscript_slice(keys, start, stop)

\* [(key, self[key]) for key in keys]: the first exception of a lookup ends
\* the comprehension; a resolved sub-group is kept by value
RECURSIVE resolve_items(_, _, _)
resolve_items(h, self, keys) ==
    IF keys = <<>> THEN [exc |-> None, ret |-> <<>>]
    ELSE LET got == HDF5Adapter__getitem__(h, self, Head(keys))
             child == IF got.exc # None THEN None
                      ELSE IF got.heap # h
                      THEN [type |-> "HDF5Adapter",
                            adapter |-> got.heap[got.ret]]
                      ELSE got.ret
             rest == resolve_items(h, self, Tail(keys))
         IN  IF got.exc # None THEN [exc |-> got.exc, ret |-> <<>>]
             ELSE IF rest.exc # None THEN rest
             ELSE [exc |-> None,
                   ret |-> <<[key |-> Head(keys), value |-> child]>>
                               \o rest.ret]

\* _items_slice(start, stop, direction)
_items_slice(h, self, start, stop, direction) ==
    LET resolved == resolve_items(h, self, list_self(h, self).items)
        items0 == list(resolved.ret)
        items == IF direction < 0 THEN reversed(items0) ELSE items0
    IN  IF resolved.exc # None THEN [exc |-> resolved.exc, ret |-> <<>>]
        ELSE subscript_slice(items, start, stop)

\* _item_by_index(index, direction)
_item_by_index(h, self, index, direction) ==
    LET keys0 == list_self(h, self)
        keys == IF direction < 0 THEN reversed(keys0) ELSE keys0
    IN  subscript_index(keys, index)

-----------------------------------------------------------------------------
(* The containers the specifications open.                                 *)

Payloads == {"p0", "p1"}

float_dataset(attributes) ==
    Dataset(Dtype("f", None), <<2>>, <<"p0", "p1">>, attributes)

\* root: entry (a group), x (a dataset); entry: data (a dataset with an
\* attribute)
SampleFile ==
    (0 :> <<Link("entry", Group(1)), Link("x", float_dataset(EmptyDict))>>)
    @@ (1 :> <<Link("data", float_dataset({<<"unit", "eV">>}))>>)

Groups == DOMAIN file

\* The shapes of at most MaxSize elements: 0-d, and 1-d of every length
Shapes == {<<>>} \cup {<<n>> : n \in 0..MaxSize}

\* Every dataset of at most MaxSize elements
Datasets ==
    UNION {{Dataset(dtype, shape, data, attributes) :
                data \in [1..Product(shape) -> Payloads],
                attributes \in {EmptyDict, {<<"unit", "eV">>}}} :
           dtype \in Dtypes, shape \in Shapes}

\* A root group whose one link, data, leads to any dataset
LeafFiles == {(0 :> <<Link("data", d)>>) : d \in Datasets}

\* What a link of a generated root leads to, which its name decides: entry
\* is a sub-group, x a dataset of variable-length integer arrays, the other
\* names numeric datasets
object_named(name) ==
    IF name = "entry" THEN Group(1)
    ELSE IF name = "x"
    THEN Dataset(Dtype("O", "int"), <<1>>, <<"p0">>, EmptyDict)
    ELSE float_dataset(EmptyDict)

\* The sequences of exactly n distinct names
RECURSIVE NameLists(_)
NameLists(n) ==
    IF n = 0 THEN {<<>>}
    ELSE {Append(l, name) :
             l \in NameLists(n - 1), name \in LinkNames}

DistinctNames(l) == \A i, j \in 1..Len(l) : l[i] = l[j] => i = j

\* The native orders of a group of at most MaxChildren links
NativeOrders ==
    UNION {{l \in NameLists(n) : DistinctNames(l)} : n \in 0..MaxChildren}

\* The one sub-group of the generated containers
SubGroupLinks == <<Link("data", float_dataset({<<"unit", "eV">>}))>>

\* A root group with any of the links, in any native order, over one
\* sub-group
MapFiles ==
    {(0 :> [i \in 1..Len(l) |-> Link(l[i], object_named(l[i]))])
         @@ (1 :> SubGroupLinks) :
        l \in NativeOrders}

-----------------------------------------------------------------------------
(* The calls.                                                              *)

NoCall ==
    [op |-> "none", self |-> 0, args |-> <<>>, exc |-> None, ret |-> None,
     consulted |-> 0, warned |-> FALSE]

Call(op, self, args, exc, ret) ==
    [op |-> op, self |-> self, args |-> args, exc |-> exc, ret |-> ret,
     consulted |-> 0, warned |-> FALSE]

Receivers == 1..Len(heap)

\* HDF5Adapter(node, access_policy, authenticated_identity)
New ==
    \E node \in Groups, access_policy \in Policies \cup {None},
       authenticated_identity \in Identities \cup {None} :
        LET r == HDF5Adapter__init__(heap, node, access_policy,
                                     authenticated_identity)
        IN  /\ Len(r.heap) <= MaxAdapters
            /\ heap' = r.heap
            /\ last' = [Call("__init__", 0,
                             <<node, access_policy, authenticated_identity>>,
                             r.exc, r.ret)
                        EXCEPT !.consulted = r.consulted]
            /\ UNCHANGED <<file, gen, arrays, dicts>>

\* HDF5Adapter.from_file(file)
FromFile ==
    \E source \in Sources :
        LET r == from_file(heap, source)
        IN  /\ Len(r.heap) <= MaxAdapters
            /\ heap' = r.heap
            /\ last' = [Call("from_file", 0, <<source>>, r.exc, r.ret)
                        EXCEPT !.consulted = r.consulted]
            /\ UNCHANGED <<file, gen, arrays, dicts>>

\* self.authenticated_as(identity)
AuthenticatedAs ==
    \E self \in Receivers, identity \in Identities :
        LET r == authenticated_as(heap, self, identity)
        IN  /\ Len(r.heap) <= MaxAdapters
            /\ heap' = r.heap
            /\ last' = [Call("authenticated_as", self, <<identity>>,
                             r.exc, r.ret)
                        EXCEPT !.consulted = r.consulted]
            /\ UNCHANGED <<file, gen, arrays, dicts>>

\* self[key]
GetItem ==
    \E self \in Receivers, key \in Keys :
        LET r == HDF5Adapter__getitem__(heap, self, key)
        IN  /\ Len(r.heap) <= MaxAdapters
            /\ heap' = r.heap
            /\ last' = [Call("__getitem__", self, <<key>>, r.exc, r.ret)
                        EXCEPT !.warned = r.warned]
            /\ UNCHANGED <<file, gen, arrays, dicts>>

\* self.read(fields)
Read ==
    \E self \in Receivers, fields \in {None, "field"} :
        LET r == read(heap, self, fields)
        IN  /\ heap' = r.heap
            /\ last' = Call("read", self, <<fields>>, r.exc, r.ret)
            /\ UNCHANGED <<file, gen, arrays, dicts>>

\* self.search(query)
Search ==
    \E self \in Receivers :
        LET r == search(heap, self, "query")
        IN  /\ heap' = r.heap
            /\ last' = Call("search", self, <<"query">>, r.exc, r.ret)
            /\ UNCHANGED <<file, gen, arrays, dicts>>

\* len(self)
Length ==
    \E self \in Receivers :
        /\ last' = Call("__len__", self, <<>>, None,
                        HDF5Adapter__len__(heap, self))
        /\ UNCHANGED <<file, heap, gen, arrays, dicts>>

\* iter(self)
Iter ==
    \E self \in Receivers :
        /\ gen' = HDF5Adapter__iter__(heap, self)
        /\ last' = Call("__iter__", self, <<>>, None, None)
        /\ UNCHANGED <<file, heap, arrays, dicts>>

\* next(g) on the latest generator
IterNext ==
    /\ gen.self \in Receivers
    /\ LET r == generator_next(heap, gen)
       IN  /\ gen' = r.gen
           /\ last' = Call("__next__", gen.self, <<>>, r.exc, r.ret)
    /\ UNCHANGED <<file, heap, arrays, dicts>>

\* The offsets and positions the indexers are asked for
Offsets == -1..MaxChildren
Directions == {1, -1}

\* self._keys_slice(start, stop, direction)
KeysSlice ==
    \E self \in Receivers, start \in Offsets, stop \in Offsets,
       direction \in Directions :
        LET r == _keys_slice(heap, self, start, stop, direction)
        IN  /\ last' = Call("_keys_slice", self, <<start, stop, direction>>,
                            r.exc, r.ret)
            /\ UNCHANGED <<file, heap, gen, arrays, dicts>>

\* self._items_slice(start, stop, direction)
ItemsSlice ==
    \E self \in Receivers, start \in Offsets, stop \in Offsets,
       direction \in Directions :
        LET r == _items_slice(heap, self, start, stop, direction)
        IN  /\ last' = Call("_items_slice", self, <<start, stop, direction>>,
                            r.exc, r.ret)
            /\ UNCHANGED <<file, heap, gen, arrays, dicts>>

\* self._item_by_index(index, direction)
ItemByIndex ==
    \E self \in Receivers, index \in Offsets, direction \in Directions :
        LET r == _item_by_index(heap, self, index, direction)
        IN  /\ last' = Call("_item_by_index", self, <<index, direction>>,
                            r.exc, r.ret)
            /\ UNCHANGED <<file, heap, gen, arrays, dicts>>

-----------------------------------------------------------------------------
(* The specifications.                                                     *)

\* A caller that constructs, authenticates and resolves tree nodes of the
\* sample container.
Init ==
    /\ file = SampleFile
    /\ heap = <<>>
    /\ gen = NoGenerator
    /\ arrays = <<>>
    /\ dicts = <<>>
    /\ last = NoCall

Next ==
    \/ New
    \/ FromFile
    \/ AuthenticatedAs
    \/ GetItem
    \/ Read
    \/ Search

Spec == Init /\ [][Next]_vars

\* The root adapter of a container, as from_file leaves it
Opened == from_file(<<>>, "h5py.File").heap

\* The mapping interface of the root of any generated container.
InitMap ==
    /\ file \in MapFiles
    /\ heap = Opened
    /\ gen = NoGenerator
    /\ arrays = <<>>
    /\ dicts = <<>>
    /\ last = NoCall

NextMap ==
    \/ GetItem
    \/ Length
    \/ Iter
    \/ IterNext

SpecMap == InitMap /\ [][NextMap]_vars

\* The slicing helpers on the root of any generated container.
NextSlice ==
    \/ KeysSlice
    \/ ItemsSlice
    \/ ItemByIndex

SpecSlice == InitMap /\ [][NextSlice]_vars

\* The resolution of a leaf of any encoding, shape and payload.
InitLeaf ==
    /\ file \in LeafFiles
    /\ heap = Opened
    /\ gen = NoGenerator
    /\ arrays = <<>>
    /\ dicts = <<>>
    /\ last = NoCall

NextLeaf ==
    \/ GetItem

SpecLeaf == InitLeaf /\ [][NextLeaf]_vars

-----------------------------------------------------------------------------
(* The specification of ArrayWithAttrs.                                    *)

\* The plain 1-d integer arrays [1, ..., n] of 1..MaxSize elements
PlainArrays ==
    {ndarray(Int64, <<n>>, [i \in 1..n |-> i]) : n \in 1..MaxSize}

AttrsValues == {EmptyDict, {<<"unit", "eV">>}}

ArrayRefs == 1..Len(arrays)

IsVector(a) == a.dtype = Int64 /\ Len(a.shape) = 1

\* The operands that may stand beside a: an ArrayWithAttrs or a plain array
\* of a's shape, or the Python int 1
Others(a) ==
    {Operand("ArrayWithAttrs", j, ndarray(Int64, <<>>, <<0>>)) :
        j \in {k \in ArrayRefs : arrays[k].dtype = Int64
                                 /\ arrays[k].shape = arrays[a].shape}}
    \cup {Operand("ndarray", 0,
                  ndarray(Int64, arrays[a].shape,
                          [i \in 1..Len(arrays[a].data) |-> 1]))}
    \cup {Operand("int", 0, scalar("int", 1))}

Self(a) == Operand("ArrayWithAttrs", a, ndarray(Int64, <<>>, <<0>>))

Indices == Operand("ndarray", 0, ndarray(Int64, <<1>>, <<0>>))

\* The ufunc calls numpy hands to the __array_ufunc__ of the array numbered a
UfuncCalls(a) ==
    IF arrays[a].dtype # Int64 THEN {}
    ELSE
    {[ufunc |-> "negative", method |-> "__call__", inputs |-> <<Self(a)>>]}
    \cup {[ufunc |-> "add", method |-> "__call__", inputs |-> <<Self(a), o>>] :
             o \in Others(a)}
    \cup {[ufunc |-> "add", method |-> "__call__", inputs |-> <<o, Self(a)>>] :
             o \in {p \in Others(a) : p.kind # "ArrayWithAttrs"}}
    \cup (IF ~IsVector(arrays[a]) THEN {}
          ELSE {[ufunc |-> "add", method |-> m, inputs |-> <<Self(a)>>] :
                   m \in {"reduce", "accumulate"}}
               \cup {[ufunc |-> "add", method |-> "outer",
                      inputs |-> <<Self(a), o>>] : o \in Others(a)}
               \cup {[ufunc |-> "add", method |-> "reduceat",
                      inputs |-> <<Self(a), Indices>>]}
               \cup {[ufunc |-> "add", method |-> "at",
                      inputs |-> <<Self(a), Indices, o>>] :
                        o \in {p \in Others(a) : p.kind # "ArrayWithAttrs"}})

\* ArrayWithAttrs(input_array)
NewArray ==
    \E input_array \in PlainArrays :
        LET r == ArrayWithAttrs__new__(arrays, dicts, input_array)
        IN  /\ Len(r.arrays) <= MaxArrays
            /\ arrays' = r.arrays
            /\ dicts' = r.dicts
            /\ last' = Call("__new__", 0, <<>>, None, r.ret)
            /\ UNCHANGED <<file, heap, gen>>

\* a.attrs = m
SetAttrs ==
    \E a \in ArrayRefs, m \in AttrsValues :
        /\ dicts' = [dicts EXCEPT ![arrays[a].dict] = m]
        /\ last' = Call("attrs", a, <<>>, None, None)
        /\ UNCHANGED <<file, heap, gen, arrays>>

\* A ufunc applied to operands of which a is the first ArrayWithAttrs
Ufunc ==
    \E a \in ArrayRefs :
        \E c \in UfuncCalls(a) :
            LET r == ArrayWithAttrs__array_ufunc__(arrays, dicts, a, c.ufunc,
                                                   c.method, c.inputs)
            IN  /\ Len(r.arrays) <= MaxArrays
                /\ arrays' = r.arrays
                /\ dicts' = r.dicts
                /\ last' = Call("__array_ufunc__", a,
                                <<c.ufunc, c.method,
                                  [i \in 1..Len(c.inputs) |->
                                      c.inputs[i].kind]>>,
                                r.exc, r.ret)
                /\ UNCHANGED <<file, heap, gen>>

InitArr ==
    /\ file = SampleFile
    /\ heap = <<>>
    /\ gen = NoGenerator
    /\ arrays = <<>>
    /\ dicts = <<>>
    /\ last = NoCall

NextArr ==
    \/ NewArray
    \/ SetAttrs
    \/ Ufunc

SpecArr == InitArr /\ [][NextArr]_vars

-----------------------------------------------------------------------------
(* The properties.                                                         *)

\* The object the link named key of adapter self leads to
Child(self, key) == Group__getitem__(heap[self].node, key)

\* C1: authenticated_as(id) on a node with no identity and no access policy
\* returns a new node over the same container node that carries id, and
\* leaves every existing node, the receiver included, as it was; called
\* again on the node it returned, it fails with RuntimeError (already
\* authenticated) and constructs nothing.
C1_AuthenticatedAsIsNonMutating ==
    [][last'.op = "authenticated_as" =>
        LET self == last'.self
            id == last'.args[1]
        IN  /\ \A i \in 1..Len(heap) : i <= Len(heap') /\ heap'[i] = heap[i]
            /\ (heap[self].authenticated_identity = None
                /\ heap[self].access_policy = None)
               => /\ last'.exc = None
                  /\ heap' = Append(heap, Adapter(heap[self].node, None, id))
                  /\ last'.ret = Len(heap')
                  /\ heap'[self].authenticated_identity = None
            /\ (last.op = "authenticated_as" /\ last.exc = None
                /\ self = last.ret)
               => /\ last'.exc = "RuntimeError"
                  /\ heap' = heap]_vars

\* C1 witness: the second authenticated_as, on the authenticated copy of a
\* node that is itself still unauthenticated, has failed.
C1_Witness ==
    /\ last.op = "authenticated_as"
    /\ last.exc = "RuntimeError"
    /\ last.self = 2
    /\ heap[1] = Adapter(RootGroup, None, None)
    /\ heap[2] = Adapter(RootGroup, None, "alice")

\* C6: self[key] for a key that names a sub-group constructs one new
\* HDF5Adapter over that sub-group with no access policy and no identity,
\* whatever the policy and identity of self, and returns it; self and every
\* other node stay as they were.
C6_GroupChildIsBare ==
    [][(/\ last'.op = "__getitem__"
        /\ Child(last'.self, last'.args[1]).exc = None
        /\ Child(last'.self, last'.args[1]).value.kind = "Group")
       => /\ last'.exc = None
          /\ heap' = Append(heap,
                            Adapter(Child(last'.self, last'.args[1]).value.id,
                                    None, None))
          /\ last'.ret = Len(heap')]_vars

\* C6 witness: a node with a policy and an identity has resolved a sub-group.
C6_Witness ==
    /\ last.op = "__getitem__"
    /\ last.exc = None
    /\ Len(heap) = 2
    /\ heap[1] = Adapter(RootGroup, "compatible_policy", "alice")
    /\ last.self = 1
    /\ heap[2] = Adapter(1, None, None)

\* C8: authenticated_as fails with RuntimeError when the node carries an
\* identity and with NotImplementedError when it carries none but has an
\* access policy; a failed call constructs nothing and changes no node; so a
\* node a successful call returns has no access policy.
C8_AuthenticatedAsFailures ==
    [][last'.op = "authenticated_as" =>
        LET self == last'.self
        IN  /\ heap[self].authenticated_identity # None
               => last'.exc = "RuntimeError"
            /\ (heap[self].authenticated_identity = None
                /\ heap[self].access_policy # None)
               => last'.exc = "NotImplementedError"
            /\ last'.exc # None => heap' = heap
            /\ last'.exc = None
               => /\ Len(heap') = Len(heap) + 1
                  /\ heap'[last'.ret].access_policy = None]_vars

\* C8 witness: authenticated_as has failed on a node that has an access
\* policy and no identity.
C8_Witness ==
    /\ last.op = "authenticated_as"
    /\ last.exc = "NotImplementedError"
    /\ heap[last.self].access_policy = "compatible_policy"
    /\ heap[last.self].authenticated_identity = None

\* C9: construction fails, with ValueError, exactly when an access policy is
\* given and its check_compatibility returns false; the predicate is called
\* once when a policy is given (there is none to call otherwise); so every
\* node has no access policy or one whose check_compatibility returns true.
C9_ConstructionChecksPolicy ==
    /\ \A i \in 1..Len(heap) :
          \/ heap[i].access_policy = None
          \/ check_compatibility(heap[i].access_policy)
    /\ last.op = "__init__" =>
          LET access_policy == last.args[2]
          IN  /\ last.exc \in {None, "ValueError"}
              /\ last.exc = "ValueError"
                 <=> (access_policy # None
                      /\ ~check_compatibility(access_policy))
              /\ last.consulted = IF access_policy # None THEN 1 ELSE 0
              /\ last.exc = None
                 => heap[last.ret]
                    = Adapter(last.args[1], access_policy, last.args[3])

\* C9 witness: a construction with an incompatible policy has failed after
\* one call of the predicate.
C9_Witness ==
    /\ last.op = "__init__"
    /\ last.args[2] = "incompatible_policy"
    /\ last.exc = "ValueError"
    /\ last.consulted = 1

\* C10: len(self) is the number of links of the container node; a generator
\* of iter(self) starts at the beginning and, run to its end, has yielded
\* that many distinct names in the native order; self[key] raises KeyError
\* exactly for the keys that are none of these names.
C10_LengthKeysAndLookupAgree ==
    /\ last.op = "__len__" => last.ret = Len(file[heap[last.self].node])
    /\ last.op = "__iter__" => gen.pos = 0 /\ gen.out = <<>> /\ ~gen.done
    /\ gen.done =>
          LET links == file[heap[gen.self].node]
          IN  /\ Len(gen.out) = Len(links)
              /\ \A i \in 1..Len(links) : gen.out[i] = links[i].name
              /\ Cardinality(Range(gen.out)) = Len(links)
              /\ HDF5Adapter__len__(heap, gen.self) = Len(gen.out)
    /\ last.op = "__getitem__" =>
          (last.exc = "KeyError"
           <=> last.args[1] \notin Range(list_self(heap, last.self).items))

\* C10 witness: a second generator over a node of three links has been run
\* to its end.
C10_Witness ==
    /\ last.op = "__next__"
    /\ last.exc = "StopIteration"
    /\ gen.done
    /\ Len(gen.out) = 3

\* The dataset the latest __getitem__ asked for, when there is one
Asked == Child(last.self, last.args[1]).value

AskedDataset ==
    /\ last.op = "__getitem__"
    /\ Child(last.self, last.args[1]).exc = None
    /\ Asked.kind = "Dataset"

\* C2: self[key] for a dataset of object dtype (variable-length strings or
\* any other object payload) with more than one element returns an
\* HDF5DatasetAdapter over an array of no elements with empty metadata, and
\* raises nothing.
C2_ObjectLeafDegrades ==
    (AskedDataset /\ Asked.dtype \in ObjectDtypes /\ size(Asked) > 1)
    => /\ last.exc = None
       /\ last.ret.type = "HDF5DatasetAdapter"
       /\ Product(last.ret.array.shape) = 0
       /\ last.ret.metadata = EmptyDict

\* C3: self[key] for a dataset of object dtype with exactly one element
\* returns an HDF5DatasetAdapter over an array of that one element, read
\* eagerly, with empty metadata.
C3_SingleObjectLeaf ==
    (AskedDataset /\ Asked.dtype \in ObjectDtypes /\ size(Asked) = 1)
    => /\ last.exc = None
       /\ last.ret.type = "HDF5DatasetAdapter"
       /\ Product(last.ret.array.shape) = 1
       /\ last.ret.array.data = Asked.data
       /\ last.ret.metadata = EmptyDict

\* The names of the node the latest call was made on, reversed when the
\* direction the call was given is negative
Directed(direction) ==
    LET native == names(heap[last.self].node)
    IN  IF direction < 0 THEN Reverse(native) ELSE native

\* C4: _keys_slice(start, stop, direction), for offsets from 0, returns the
\* names from position start up to position stop of the native list of
\* names, or of that list reversed when direction is negative; so
\* _keys_slice(0, n, -1) is the reverse of _keys_slice(0, n, +1).
C4_KeysSliceDirection ==
    (last.op = "_keys_slice" /\ last.args[1] >= 0 /\ last.args[2] >= 0)
    => /\ last.exc = None
       /\ last.ret = SubSeq(Directed(last.args[3]), last.args[1] + 1,
                            Min(last.args[2], Len(Directed(last.args[3]))))

\* C7: _item_by_index(i, d), for i from 0, returns the name at position i of
\* the native list of names, or of that list reversed when d is negative,
\* and raises IndexError, and nothing else, when the list has no position i.
C7_ItemByIndex ==
    (last.op = "_item_by_index" /\ last.args[1] >= 0)
    => IF last.args[1] < Len(Directed(last.args[2]))
       THEN /\ last.exc = None
            /\ last.ret = Directed(last.args[2])[last.args[1] + 1]
       ELSE last.exc = "IndexError"

\* C5: a ufunc call (elementwise, reduce, accumulate, outer, reduceat, at)
\* with an ArrayWithAttrs among its operands, the others being arrays or
\* plain scalars, returns an ArrayWithAttrs whose metadata is that of the
\* ArrayWithAttrs, held in the same __dict__.
C5_MetadataPreserved ==
    last.op = "__array_ufunc__"
    => /\ last.exc = None
       /\ arrays[last.ret].dict = arrays[last.self].dict
       /\ attrs(arrays, dicts, last.ret) = attrs(arrays, dicts, last.self)

=============================================================================
